---- MODULE Spec2Model ----
(***************************************************************************)
(* Model of the two scripts of the repository:                             *)
(*   convert_svg_to_jpg.py  - the batch SVG to JPEG converter              *)
(*   serve_animation.py     - the static file server                       *)
(* File names are sequences of one-character strings, so that endswith and *)
(* str.replace are computed character by character as Python does.         *)
(***************************************************************************)
EXTENDS Integers, Sequences, FiniteSets, TLC

VARIABLES
    \* ---- converter (convert_svg_to_jpg.py) ----
    fs,             \* the working directory: the set of file names in it
    pc,             \* position of main(): "start", "loop", "done"
    svg_files,      \* main's list of discovered source files
    idx,            \* position of the for loop in svg_files (1-based)
    success_count,  \* main's counter
    out,            \* lines printed to standard output, in order
    raster,         \* the image Image.open returned in the latest conversion
    encoded,        \* the image handed to image.save in the latest conversion
    written,        \* the files image.save has written completely in this run
    \* ---- server (serve_animation.py) ----
    spc,            \* position of serve_animation.main()
    sock,           \* the listening socket: "none", "listening", "closed"
    open,           \* args.open
    browser,        \* "none", "opened", "failed": outcome of webbrowser.open
    interrupted,    \* a KeyboardInterrupt has been delivered
    tree,           \* the served directory: kind of each entry
    conn            \* per connection: the request being handled and its response

cvars == <<fs, pc, svg_files, idx, success_count, out, raster, encoded, written>>
svars == <<spc, sock, open, browser, interrupted, tree, conn>>
vars == <<fs, pc, svg_files, idx, success_count, out, raster, encoded, written,
          spc, sock, open, browser, interrupted, tree, conn>>

(***************************************************************************)
(* Bounds of the model.                                                    *)
(***************************************************************************)
\* a file name is made of at most MaxChunks chunks of Chunks
MaxChunks == 2
\* the working directory holds at most MaxFiles files
MaxFiles == 2
\* the server handles at most MaxConn connections at a time
MaxConn == 1

(***************************************************************************)
(* Strings.                                                                *)
(***************************************************************************)
SVG == <<".", "s", "v", "g">>
JPG == <<".", "j", "p", "g">>
Chunks == { <<"a">>, SVG, JPG }

RECURSIVE NamesOf(_)
NamesOf(k) ==
    IF k = 0 THEN { <<>> }
    ELSE { c \o n : c \in Chunks, n \in NamesOf(k - 1) }

\* the file names a directory may hold (never the empty name)
Names == UNION { NamesOf(k) : k \in 1..MaxChunks }

\* str.endswith
endswith(s, suffix) ==
    /\ Len(suffix) <= Len(s)
    /\ SubSeq(s, Len(s) - Len(suffix) + 1, Len(s)) = suffix

\* old occurs in s at position i
OccursAt(s, i, old) ==
    /\ i + Len(old) - 1 <= Len(s)
    /\ SubSeq(s, i, i + Len(old) - 1) = old

\* old occurs somewhere in s (the Python test: old in s)
contains(s, old) == \E i \in 1..Len(s) : OccursAt(s, i, old)

RECURSIVE ReplaceFrom(_, _, _, _)
ReplaceFrom(s, i, old, new) ==
    IF i > Len(s) THEN <<>>
    ELSE IF OccursAt(s, i, old)
         THEN new \o ReplaceFrom(s, i + Len(old), old, new)
         ELSE <<s[i]>> \o ReplaceFrom(s, i + 1, old, new)

RECURSIVE ReplaceFirstFrom(_, _, _, _)
ReplaceFirstFrom(s, i, old, new) ==
    IF i > Len(s) THEN <<>>
    ELSE IF OccursAt(s, i, old)
         THEN new \o SubSeq(s, i + Len(old), Len(s))
         ELSE <<s[i]>> \o ReplaceFirstFrom(s, i + 1, old, new)

\* a replace that stops after the first occurrence
str_replace_first(s, old, new) == ReplaceFirstFrom(s, 1, old, new)

\* str.replace(old, new): every non-overlapping occurrence, left to right
str_replace(s, old, new) == ReplaceFrom(s, 1, old, new)

\* the name with its trailing extension replaced (what a same-named .jpg is)
TrailingReplaced(s, old, new) ==
    SubSeq(s, 1, Len(s) - Len(old)) \o new

\* the sequences that list the elements of S once each
Perms(S) ==
    { p \in [1..Cardinality(S) -> S] : \A x \in S : \E k \in DOMAIN p : p[k] = x }

Range(s) == { s[k] : k \in DOMAIN s }

(***************************************************************************)
(* convert_svg_to_jpg.py: images.  An image is one pixel in a colour mode; *)
(* px holds the channel values of the mode, each 0..255.                   *)
(***************************************************************************)
\* the white of the background canvas, Image.new('RGB', size, (255, 255, 255))
White == 255
\* the JPEG quality convert_svg_to_jpg is called with
Quality == 95

Colours == { <<200, 100, 50>> }
Greys == { 0 }
Alphas == { 0, 128, 255 }
GreyAlphas == { 0 }

\* what Image.open may return for the rasterizer's PNG
RasterImages ==
    { [mode |-> "RGBA", px |-> c \o <<a>>] : c \in Colours, a \in Alphas }
    \cup { [mode |-> "RGB", px |-> c] : c \in Colours }
    \cup { [mode |-> "LA", px |-> <<l, a>>] : l \in Greys, a \in GreyAlphas }
    \cup { [mode |-> "L", px |-> <<l>>] : l \in Greys }

NoImage == [mode |-> "none", px |-> <<>>]

\* the image has an alpha channel
HasAlpha(image) == image.mode \in { "RGBA", "LA" }
\* the alpha value of the pixel of an image with an alpha channel
AlphaOf(image) == image.px[Len(image.px)]

\* Pillow's DIV255 and BLEND8 on 8-bit channels
DIV255(a) == (((a + 128) \div 256) + (a + 128)) \div 256
BLEND8(mask, in1, in2) == DIV255(in1 * (255 - mask) + in2 * mask)

\* rgb_image.paste(image, mask=image.split()[3]) onto the white canvas
PasteOnWhite(image) ==
    [mode |-> "RGB",
     px |-> << BLEND8(image.px[4], White, image.px[1]),
               BLEND8(image.px[4], White, image.px[2]),
               BLEND8(image.px[4], White, image.px[3]) >>]

\* image.convert('RGB') of a mode that is neither RGBA nor RGB: the grey
\* level is copied to the three channels and an alpha channel is dropped
ConvertToRGB(image) ==
    [mode |-> "RGB", px |-> << image.px[1], image.px[1], image.px[1] >>]

\* the colour handling of convert_svg_to_jpg: the image handed to save
Flatten(image) ==
    IF image.mode = "RGBA" THEN PasteOnWhite(image)
    ELSE IF image.mode # "RGB" THEN ConvertToRGB(image)
    ELSE image

(***************************************************************************)
(* convert_svg_to_jpg.py: one conversion.                                  *)
(* An outcome says what the libraries do for this file: svg2png or         *)
(* Image.open raises ("raster"), image.save raises ("save": no file of a   *)
(* new name is left in the directory), or nothing raises ("ok").           *)
(***************************************************************************)
Outcomes ==
    { [at |-> "raster", image |-> NoImage] }
    \cup { [at |-> "save", image |-> im] : im \in RasterImages }
    \cup { [at |-> "ok", image |-> im] : im \in RasterImages }

SuccessLine(svg_file, jpg_file) == << "ok", svg_file, jpg_file >>
ErrorLine(svg_file) == << "err", svg_file >>

\* a convert_svg_to_jpg whose except clause is missing: the exception leaves it
convert_svg_to_jpg_uncaught(svg_file, jpg_file, o) ==
    [returned |-> o.at = "ok",
     raised |-> o.at # "ok",
     line |-> IF o.at = "ok" THEN SuccessLine(svg_file, jpg_file) ELSE <<>>,
     raster |-> o.image,
     encoded |-> IF o.at = "raster" THEN NoImage ELSE Flatten(o.image),
     quality |-> Quality,
     saved |-> IF o.at = "ok" THEN { jpg_file } ELSE {}]

\* convert_svg_to_jpg(svg_file, jpg_file): what it returns, prints and writes
convert_svg_to_jpg(svg_file, jpg_file, o) ==
    [returned |-> o.at = "ok",
     raised |-> FALSE,
     line |-> IF o.at = "ok" THEN SuccessLine(svg_file, jpg_file)
              ELSE ErrorLine(svg_file),
     raster |-> o.image,
     encoded |-> IF o.at = "raster" THEN NoImage ELSE Flatten(o.image),
     quality |-> Quality,
     saved |-> IF o.at = "ok" THEN { jpg_file } ELSE {}]

(***************************************************************************)
(* convert_svg_to_jpg.py: main().                                          *)
(***************************************************************************)
\* the filter of the list comprehension: f.endswith('.svg')
IsSource(f) == endswith(f, SVG)

\* the files main discovers in a directory
Discover(dir) == { f \in dir : IsSource(f) }

\* jpg_file = svg_file.replace('.svg', '.jpg')
jpg_name(svg_file) == str_replace(svg_file, SVG, JPG)

\* a counter that counts every attempt
CountAll(count, returned) == count + 1

\* if convert_svg_to_jpg(...): success_count += 1
Count(count, returned) == IF returned THEN count + 1 ELSE count

NoFilesLine == << "nofiles" >>
FoundLine(n) == << "found", n >>
TallyLine(s, n) == << "tally", s, n >>

RECURSIVE DirectoriesOf(_)
DirectoriesOf(k) ==
    IF k = 0 THEN { {} }
    ELSE LET smaller == DirectoriesOf(k - 1)
         IN  smaller \cup { d \cup { n } : d \in smaller, n \in Names }

\* the directories the converter may be run in: at most MaxFiles files
Directories == DirectoriesOf(MaxFiles)

ConverterInit ==
    /\ fs \in Directories
    /\ pc = "start"
    /\ svg_files = <<>>
    /\ idx = 0
    /\ success_count = 0
    /\ out = <<>>
    /\ raster = NoImage
    /\ encoded = NoImage
    /\ written = {}

\* svg_files = [...]; the early return, or the "Found" line and the loop
ListDir ==
    /\ pc = "start"
    /\ \E listing \in Perms(Discover(fs)) :
         /\ svg_files' = listing
         /\ IF listing = <<>>
            THEN /\ out' = Append(out, NoFilesLine)
                 /\ pc' = "done"
                 /\ idx' = idx
            ELSE /\ out' = Append(out, FoundLine(Len(listing)))
                 /\ pc' = "loop"
                 /\ idx' = 1
    /\ success_count' = 0
    /\ UNCHANGED <<fs, raster, encoded, written>>

\* one iteration of the for loop
ConvertNext ==
    /\ pc = "loop"
    /\ idx <= Len(svg_files)
    /\ \E o \in Outcomes :
         LET svg_file == svg_files[idx]
             jpg_file == jpg_name(svg_file)
             r == convert_svg_to_jpg(svg_file, jpg_file, o)
         IN  /\ out' = IF r.line = <<>> THEN out ELSE Append(out, r.line)
             /\ raster' = r.raster
             /\ encoded' = r.encoded
             /\ fs' = fs \cup r.saved
             /\ written' = written \cup r.saved
             /\ IF r.raised
                THEN /\ pc' = "crashed"
                     /\ UNCHANGED <<idx, success_count>>
                ELSE /\ pc' = "loop"
                     /\ idx' = idx + 1
                     /\ success_count' = Count(success_count, r.returned)
    /\ UNCHANGED svg_files

\* the loop is exhausted: the final print
PrintTally ==
    /\ pc = "loop"
    /\ idx > Len(svg_files)
    /\ out' = Append(out, TallyLine(success_count, Len(svg_files)))
    /\ pc' = "done"
    /\ UNCHANGED <<fs, svg_files, idx, success_count, raster, encoded, written>>

(***************************************************************************)
(* serve_animation.py: the request handler.                                *)
(* A request is its request line (command, path, version: "" is a line of  *)
(* two words, the HTTP/0.9 form) and whether it carries an                 *)
(* If-Modified-Since header that matches the file.  A response is the      *)
(* status code passed to send_response, the header block flushed to the    *)
(* socket (<<>> when none is sent), the body, and the path the             *)
(* file-serving logic ran on ("none" if it did not run).                   *)
(***************************************************************************)
AnimationPath == "/mpmc_animation.html"
CORS == "Access-Control-Allow-Origin: *"

Commands == { "GET", "HEAD", "POST" }
\* parse_request splits the request line on whitespace: a path is never empty
RequestPaths == { "/", AnimationPath, "/other.txt" }
Versions == { "", "HTTP/1.1", "FOO/1.1" }

Requests ==
    { [command |-> m, path |-> p, version |-> v, ims |-> i] :
        m \in Commands, p \in RequestPaths, v \in Versions, i \in BOOLEAN }

\* the served directory: the animation file and index.html may be missing,
\* and the animation entry may be a directory
Trees ==
    { t \in [{ "mpmc_animation.html", "index.html" } -> { "file", "dir", "none" }] :
        t["index.html"] # "dir" }

\* os.path.isdir / isfile of translate_path(path)
KindOf(path, t) ==
    IF path = "/" THEN "dir"
    ELSE IF path = AnimationPath THEN t["mpmc_animation.html"]
    ELSE IF path = "/index.html" THEN t["index.html"]
    ELSE "none"

EndsWithSlash(path) == path = "/"

\* BaseHTTPRequestHandler.send_response: status line, Server and Date
send_response(ver, code) ==
    IF ver # "HTTP/0.9" THEN << code, "Server", "Date" >> ELSE <<>>

\* BaseHTTPRequestHandler.send_header
send_header(ver, buf, header) ==
    IF ver # "HTTP/0.9" THEN Append(buf, header) ELSE buf

\* BaseHTTPRequestHandler.end_headers: the blank line, then flush_headers
base_end_headers(ver, buf) ==
    IF ver # "HTTP/0.9" THEN Append(buf, "") ELSE buf

\* an end_headers that adds nothing
end_headers_plain(ver, buf) == base_end_headers(ver, buf)

\* Handler.end_headers
end_headers(ver, buf) == base_end_headers(ver, send_header(ver, buf, CORS))

\* BaseHTTPRequestHandler.send_error (command is self.command, "" for None)
send_error(ver, command, code, message, detail, served) ==
    [code |-> code,
     head |-> end_headers(ver,
                  send_header(ver,
                      send_header(ver,
                          send_header(ver, send_response(ver, code),
                                      "Connection: close"),
                          "Content-Type"),
                      "Content-Length")),
     body |-> IF command # "HEAD" THEN << "error", code, message, detail >>
              ELSE <<>>,
     served |-> served]

\* SimpleHTTPRequestHandler.send_head: the response head and the file (or
\* listing) to copy, <<>> when there is none
send_head(ver, command, path, ims, t) ==
    LET kind == KindOf(path, t)
        ok(f) ==
            [code |-> "200",
             head |-> end_headers(ver,
                          send_header(ver,
                              send_header(ver, send_response(ver, "200"),
                                          "Content-type"),
                              "Content-Length")),
             body |-> f,
             served |-> path]
    IN  IF kind = "dir" /\ ~EndsWithSlash(path)
        THEN [code |-> "301",
              head |-> end_headers(ver,
                           send_header(ver,
                               send_header(ver, send_response(ver, "301"),
                                           "Location"),
                               "Content-Length")),
              body |-> <<>>,
              served |-> path]
        ELSE IF kind = "dir" /\ t["index.html"] # "file"
        THEN ok(<< "listing", path >>)
        ELSE IF kind = "none"
        THEN send_error(ver, command, "404", "File not found", "", path)
        ELSE IF ims
        THEN [code |-> "304",
              head |-> end_headers(ver, send_response(ver, "304")),
              body |-> <<>>,
              served |-> path]
        ELSE ok(<< "file", IF kind = "dir" THEN "/index.html" ELSE path >>)

\* SimpleHTTPRequestHandler.do_GET: the head, then copyfile
base_do_GET(ver, path, ims, t) == send_head(ver, "GET", path, ims, t)

\* SimpleHTTPRequestHandler.do_HEAD, which Handler inherits: the head alone
do_HEAD(ver, path, ims, t) ==
    [send_head(ver, "HEAD", path, ims, t) EXCEPT !.body = <<>>]

\* the rewrite of Handler.do_GET
RewritePath(path) == IF path \in { "", "/" } THEN AnimationPath ELSE path

\* a do_GET that rewrites nothing
do_GET_plain(ver, path, ims, t) == base_do_GET(ver, path, ims, t)

\* Handler.do_GET
do_GET(ver, path, ims, t) == base_do_GET(ver, RewritePath(path), ims, t)

\* parse_request: the request version in force and the error it sends, if any
parse_request(req) ==
    IF req.version = ""
    THEN IF req.command # "GET"
         THEN [ok |-> FALSE, ver |-> "HTTP/0.9",
               message |-> "Bad HTTP/0.9 request type", detail |-> req.command]
         ELSE [ok |-> TRUE, ver |-> "HTTP/0.9", message |-> "", detail |-> ""]
    ELSE IF req.version # "HTTP/1.1"
    THEN [ok |-> FALSE, ver |-> "HTTP/0.9",
          message |-> "Bad request version", detail |-> req.version]
    ELSE [ok |-> TRUE, ver |-> req.version, message |-> "", detail |-> ""]

\* handle_one_request: parse, dispatch on do_<command>, respond
handle_one_request(req, t) ==
    LET p == parse_request(req)
    IN  IF ~p.ok
        THEN send_error(p.ver, "", "400", p.message, p.detail, "none")
        ELSE IF req.command = "GET" THEN do_GET(p.ver, req.path, req.ims, t)
        ELSE IF req.command = "HEAD" THEN do_HEAD(p.ver, req.path, req.ims, t)
        ELSE send_error(p.ver, req.command, "501", "Unsupported method",
                        req.command, "none")

NoRequest == [command |-> "", path |-> "", version |-> "", ims |-> FALSE]
NoResponse == [code |-> "", head |-> <<>>, body |-> <<>>, served |-> "none"]
Idle == [st |-> "idle", req |-> NoRequest, resp |-> NoResponse]

(***************************************************************************)
(* serve_animation.py: main() and the threads of ThreadingHTTPServer.      *)
(* spc: "start", "bound" (the server object exists), "browser" (inside the *)
(* try of webbrowser.open), "serving" (inside serve_forever), "shutting"   *)
(* (inside the except KeyboardInterrupt clause), "closed" (server_close    *)
(* returned), "exited" (main returned), "crashed" (an exception left main: *)
(* the process is gone and the system has released its socket).            *)
(***************************************************************************)
Conns == 1..MaxConn

Terminated == spc \in { "exited", "crashed" }

ServerInit ==
    /\ spc = "start"
    /\ sock = "none"
    /\ open \in BOOLEAN
    /\ browser = "none"
    /\ interrupted = FALSE
    /\ tree \in Trees
    /\ conn = [c \in Conns |-> Idle]

\* httpd = ThreadingHTTPServer(addr, Handler): bind and listen, or OSError
Bind ==
    /\ spc = "start"
    /\ \E bound \in BOOLEAN :
         IF bound THEN spc' = "bound" /\ sock' = "listening"
         ELSE spc' = "crashed" /\ sock' = sock
    /\ UNCHANGED <<open, browser, interrupted, tree, conn>>

\* print(f'Serving ...'); if args.open
Announce ==
    /\ spc = "bound"
    /\ spc' = IF open THEN "browser" ELSE "serving"
    /\ UNCHANGED <<sock, open, browser, interrupted, tree, conn>>

\* a main without the try around webbrowser.open
AfterBrowserUncaught(r) == IF r = "raised" THEN "crashed" ELSE "serving"

\* try: webbrowser.open(url) except Exception: pass
AfterBrowser(r) == "serving"

\* webbrowser.open returns True, returns False or raises
OpenBrowser ==
    /\ spc = "browser"
    /\ \E r \in { "opened", "failed", "raised" } :
         /\ browser' = r
         /\ spc' = AfterBrowser(r)
         /\ sock' = IF AfterBrowser(r) = "crashed" THEN "closed" ELSE sock
    /\ UNCHANGED <<open, interrupted, tree, conn>>

\* serve_forever accepts a connection; its thread reads the request
Accept(c) ==
    /\ spc = "serving"
    /\ conn[c].st = "idle"
    /\ \E req \in Requests :
         conn' = [conn EXCEPT ![c] = [st |-> "recv", req |-> req, resp |-> NoResponse]]
    /\ UNCHANGED <<spc, sock, open, browser, interrupted, tree>>

\* the connection's thread runs handle_one_request
Respond(c) ==
    /\ ~Terminated
    /\ conn[c].st = "recv"
    /\ conn' = [conn EXCEPT ![c] =
                  [st |-> "sent", req |-> conn[c].req,
                   resp |-> handle_one_request(conn[c].req, tree)]]
    /\ UNCHANGED <<spc, sock, open, browser, interrupted, tree>>

\* the connection is closed and its thread ends
Finish(c) ==
    /\ ~Terminated
    /\ conn[c].st = "sent"
    /\ conn' = [conn EXCEPT ![c] = Idle]
    /\ UNCHANGED <<spc, sock, open, browser, interrupted, tree>>

\* Ctrl-C: KeyboardInterrupt is raised in main, caught only in serve_forever
Interrupt ==
    /\ ~interrupted
    /\ spc \in { "start", "bound", "browser", "serving" }
    /\ interrupted' = TRUE
    /\ IF spc = "serving"
       THEN spc' = "shutting" /\ sock' = sock
       ELSE spc' = "crashed" /\ sock' = IF sock = "listening" THEN "closed" ELSE sock
    /\ UNCHANGED <<open, browser, tree, conn>>

\* an except clause that forgets server_close
server_close_missing == sock

\* httpd.server_close(): the listening socket is closed; the connection
\* threads are daemon threads and are not joined
server_close == "closed"

\* print('\nShutting down'); httpd.server_close()
Shutdown ==
    /\ spc = "shutting"
    /\ sock' = server_close
    /\ spc' = "closed"
    /\ UNCHANGED <<open, browser, interrupted, tree, conn>>

\* main returns and the process exits, in-flight daemon threads with it
Exit ==
    /\ spc = "closed"
    /\ spc' = "exited"
    /\ UNCHANGED <<sock, open, browser, interrupted, tree, conn>>

(***************************************************************************)
(* Specifications.  The two programs do not interact: Spec runs the        *)
(* converter, ServerSpec the server; the other program's variables rest.   *)
(***************************************************************************)
Init == ConverterInit /\ ServerInit /\ open = FALSE /\ tree = [e \in DOMAIN tree |-> "none"]

Next ==
    \/ ListDir /\ UNCHANGED svars
    \/ ConvertNext /\ UNCHANGED svars
    \/ PrintTally /\ UNCHANGED svars

Spec == Init /\ [][Next]_vars

ServerStart == ServerInit /\ ConverterInit /\ fs = {}

ServerNext ==
    \/ Bind /\ UNCHANGED cvars
    \/ Announce /\ UNCHANGED cvars
    \/ OpenBrowser /\ UNCHANGED cvars
    \/ (\E c \in Conns : Accept(c)) /\ UNCHANGED cvars
    \/ (\E c \in Conns : Respond(c)) /\ UNCHANGED cvars
    \/ (\E c \in Conns : Finish(c)) /\ UNCHANGED cvars
    \/ Interrupt /\ UNCHANGED cvars
    \/ Shutdown /\ UNCHANGED cvars
    \/ Exit /\ UNCHANGED cvars

ServerSpec == ServerStart /\ [][ServerNext]_vars

\* the main thread keeps running: each of its steps is eventually taken
ServerFairSpec ==
    /\ ServerSpec
    /\ WF_vars(Bind /\ UNCHANGED cvars)
    /\ WF_vars(Announce /\ UNCHANGED cvars)
    /\ WF_vars(OpenBrowser /\ UNCHANGED cvars)
    /\ WF_vars(Shutdown /\ UNCHANGED cvars)
    /\ WF_vars(Exit /\ UNCHANGED cvars)

(***************************************************************************)
(* Properties of the converter, checked under Spec.                        *)
(***************************************************************************)
\* the success and failure lines printed so far, in order
ConversionLines == SelectSeq(out, LAMBDA l : l[1] \in { "ok", "err" })

\* the files convert_svg_to_jpg has been called on so far, in order
AttemptedFiles == [k \in DOMAIN ConversionLines |-> ConversionLines[k][2]]

FailureLinePrintedFor(f) ==
    \E k \in DOMAIN ConversionLines :
        ConversionLines[k][1] = "err" /\ ConversionLines[k][2] = f

SuccessLines == SelectSeq(out, LAMBDA l : l[1] = "ok")

\* C1: after main() has run, every file of the directory that ends in
\* '.svg' has its same-named '.jpg' (the trailing extension replaced)
\* written, or a failure line naming it printed.
C1_SameNamedJpgOrFailure ==
    pc = "done" =>
        \A f \in Range(svg_files) :
            \/ TrailingReplaced(f, SVG, JPG) \in written
            \/ FailureLinePrintedFor(f)

\* C2: a failed conversion never aborts the batch: the files attempted so
\* far are exactly the discovered files before the loop position, once
\* each and in discovery order, main never ends by an exception, and when
\* it is done every discovered file has been attempted.
C2_EveryFileAttemptedOnce ==
    /\ pc # "crashed"
    /\ pc = "loop" => AttemptedFiles = SubSeq(svg_files, 1, idx - 1)
    /\ pc = "done" => AttemptedFiles = svg_files

\* a batch of two files whose first conversion failed and whose second
\* succeeded, run to its end
C2_Witness ==
    /\ pc = "done"
    /\ Len(svg_files) = 2
    /\ Len(ConversionLines) = 2
    /\ ConversionLines[1][1] = "err"
    /\ ConversionLines[2][1] = "ok"

\* C3 as claimed: every run of main() ends by printing the tally line
\* successes/total, also in a directory without any '.svg' file.
C3_AlwaysTally ==
    pc = "done" =>
        out[Len(out)] = TallyLine(Len(SuccessLines), Cardinality(Discover(fs)))

\* C3: a run of main() that discovers at least one '.svg' file ends by
\* printing the tally line successes/total, successes the number of success
\* lines printed and total the number of discovered files, with
\* 0 <= successes <= total; a run that discovers none prints the
\* "No SVG files found" line alone and no tally.
C3_TallyWhenFound ==
    pc = "done" =>
        IF Discover(fs) = {}
        THEN out = << NoFilesLine >>
        ELSE /\ out[Len(out)][1] = "tally"
             /\ out[Len(out)][2] = Len(SuccessLines)
             /\ out[Len(out)][3] = Cardinality(Discover(fs))
             /\ out[Len(out)][3] = Len(svg_files)
             /\ 0 <= out[Len(out)][2]
             /\ out[Len(out)][2] <= out[Len(out)][3]
             /\ \A k \in 1..(Len(out) - 1) : out[k][1] # "tally"

\* the 1/2 scenario: two files discovered, one converted, the tally printed
C3_Witness ==
    /\ pc = "done"
    /\ Len(svg_files) = 2
    /\ out[Len(out)] = TallyLine(1, 2)

C9_DestinationsDistinct ==
    \A i, j \in DOMAIN SuccessLines :
        SuccessLines[i][2] # SuccessLines[j][2] =>
            SuccessLines[i][3] # SuccessLines[j][3]

\* C10: for every discovered file the destination name ends in '.jpg',
\* contains no '.svg' and differs from the source name; no file written is
\* a source file of the batch, and once main() is done the directory holds
\* exactly the '.svg' files that were discovered, so that a second run
\* discovers the same files and computes the same destinations.
C10_DestinationNeverASource ==
    /\ \A f \in Range(svg_files) :
          /\ endswith(jpg_name(f), JPG)
          /\ ~contains(jpg_name(f), SVG)
          /\ jpg_name(f) # f
    /\ \A k \in DOMAIN SuccessLines : SuccessLines[k][3] = jpg_name(SuccessLines[k][2])
    /\ written \cap Range(svg_files) = {}
    /\ pc \in { "loop", "done" } => Discover(fs) = Range(svg_files)

\* a finished batch that converted a file whose name holds '.svg' twice
C10_Witness ==
    /\ pc = "done"
    /\ \E k \in DOMAIN SuccessLines :
          /\ OccursAt(SuccessLines[k][2], 1, SVG)
          /\ Len(SuccessLines[k][2]) > Len(SVG)
          /\ endswith(SuccessLines[k][2], SVG)
          /\ SuccessLines[k][3] \in fs

(***************************************************************************)
(* Properties of the server, checked under ServerSpec and ServerFairSpec.  *)
(***************************************************************************)
Sent(c) == conn[c].st = "sent"

\* C5: the body sent for GET / is the body the same request for
\* /mpmc_animation.html gets in the same directory, whether or not the
\* animation file or an index.html exists.
C5_RootBodyIsAnimationBody ==
    \A c \in Conns :
        (Sent(c) /\ conn[c].req.command = "GET" /\ conn[c].req.path = "/") =>
            conn[c].resp.body =
                handle_one_request([conn[c].req EXCEPT !.path = AnimationPath], tree).body

\* GET / answered in a directory that has an index.html and no animation file
C5_Witness ==
    \E c \in Conns :
        /\ Sent(c)
        /\ conn[c].req = [command |-> "GET", path |-> "/", version |-> "HTTP/1.1", ims |-> FALSE]
        /\ tree["mpmc_animation.html"] = "none"
        /\ tree["index.html"] = "file"
        /\ conn[c].resp.code = "404"

\* C6 as claimed: every response the server sends contains the header
\* Access-Control-Allow-Origin: *.
C6_EveryResponseHasCORS ==
    \A c \in Conns : Sent(c) => CORS \in Range(conn[c].resp.head)

\* C6: every response sent with a header block contains the header
\* Access-Control-Allow-Origin: *, and every request line with an accepted
\* HTTP/1.x version gets such a response, whatever its method, path and
\* status code; a response sent while the request version is HTTP/0.9 has
\* no header block at all.
C6_HeadedResponsesHaveCORS ==
    \A c \in Conns :
        Sent(c) =>
            /\ conn[c].resp.head # <<>> => CORS \in Range(conn[c].resp.head)
            /\ conn[c].req.version = "HTTP/1.1" => CORS \in Range(conn[c].resp.head)
            /\ conn[c].req.version # "HTTP/1.1" => conn[c].resp.head = <<>>

\* an error response (501 to a POST) that carries the header
C6_Witness ==
    \E c \in Conns :
        /\ Sent(c)
        /\ conn[c].resp.code = "501"
        /\ CORS \in Range(conn[c].resp.head)

\* C8: for every method the server answers, GET and HEAD alike, the
\* file-serving logic runs on /mpmc_animation.html when the request path
\* is empty or '/', and on the request path otherwise.
C8_RootRewrittenForEveryMethod ==
    \A c \in Conns :
        (Sent(c) /\ parse_request(conn[c].req).ok
                 /\ conn[c].req.command \in { "GET", "HEAD" }) =>
            conn[c].resp.served =
                IF conn[c].req.path \in { "", "/" } THEN AnimationPath
                ELSE conn[c].req.path

\* C7: the socket is bound before a browser launch is attempted; a failed
\* launch is followed by the serve loop; the serve loop is left only by an
\* interrupt; and after an interrupt the listening socket is closed and
\* the process terminates, whatever requests are in flight.
C7_Lifecycle ==
    /\ []((spc = "browser" \/ browser # "none") => sock # "none")
    /\ [][(spc = "browser" /\ browser' \in { "failed", "raised" }) => spc' = "serving"]_vars
    /\ [][spc = "serving" => (spc' = "serving" \/ interrupted')]_vars
    /\ [](spc = "exited" => sock = "closed")
    /\ (interrupted ~> (Terminated /\ sock # "listening"))

\* the process has exited after an interrupt of the serve loop, the browser
\* launch had raised, and a request is still in flight
C7_Witness ==
    /\ spc = "exited"
    /\ sock = "closed"
    /\ interrupted
    /\ browser = "raised"
    /\ \E c \in Conns : conn[c].st = "recv"

====
